---- MODULE Spec2Model ----
(***************************************************************************)
(* A model of the @jitl/cli argument-resolution pipeline: parseFlag,       *)
(* parseArg, parseFlagMap, parseArgsArray, parseRest, runCommand and       *)
(* runLoaders, with the validators of validate.ts, of loadAllCommands and  *)
(* of the process entry points runThenExitIfMain and startIfMain.          *)
(*                                                                         *)
(* JavaScript values are records [kind, repr]: kind is the typeof of the   *)
(* value and repr its printed form, so the string "7" and the number 7     *)
(* are different values.  A raw-arguments structure (MinimistArgv) is a    *)
(* function from its keys to values, the key "_" holding the sequence of   *)
(* positional tokens.  Object.keys order is abstracted: lists of flag      *)
(* names that the code derives from Object.keys(argv) are sets here.       *)
(***************************************************************************)
EXTENDS Naturals, Sequences, FiniteSets, TLC

VARIABLES
    entry,      \* the function the program called and the raw arguments it gave
    commandName,\* runLoaders' subcommand name, while it is being loaded
    name,       \* the display name runCommand was called with
    command,    \* the key in Commands of the command being run, "" if none
    argv,       \* the raw arguments given to the running function
    isTTY,      \* process.stderr.isTTY
    pc,         \* the function and statement being executed
    i,          \* the index of the loop being executed
    given,      \* parseRest's givenArgs
    args,       \* parseArgsArray's results
    rest,       \* parseRest's results
    flags,      \* parseFlagMap's result
    handled,    \* the calls of command.run, each with the arguments it got
    out,        \* what logger.log has printed
    outcome,    \* how the promise of runCommand, runLoaders or loadAllCommands settled
    log,        \* the calls made to the declarations and collaborators
    module,     \* whether the calling module is require.main
    timers,     \* the exit codes of the pending setTimeout(() => process.exit(code))
    exits,      \* the calls of process.exit made, each with its code
    stderr,     \* what logger.error has printed
    loading,    \* loadAllCommands: the state of each loader's promise
    result,     \* loadAllCommands: its result object
    promiseAll  \* loadAllCommands: the state of the Promise.all promise

\* the state of the process entry point
procVars == <<module, timers, exits, stderr>>
\* the state of a call of loadAllCommands
loadVars == <<loading, result, promiseAll>>

vars == <<entry, commandName, name, command, argv, isTTY, pc, i, given, args, rest, flags,
          handled, out, outcome, log, procVars, loadVars>>

-----------------------------------------------------------------------------
(* Bounds of the model *)

\* the most positional tokens given on a command line
MaxTokens == 3
\* the most named flags given on a command line
MaxKeys == 2
\* the most positional tokens given to the commands pair and sum
MaxSplitTokens == 4
\* the most loaders given to loadAllCommands
MaxLoaders == 3

-----------------------------------------------------------------------------
(* JavaScript values *)

Str(s) == [kind |-> "string", repr |-> s]
Num(s) == [kind |-> "number", repr |-> s]
Bool(s) == [kind |-> "boolean", repr |-> s]
Undefined == [kind |-> "undefined", repr |-> "undefined"]

\* Boolean(x)
Truthy(x) ==
    CASE x.kind = "boolean" -> x.repr = "true"
      [] x.kind = "string" -> x.repr # ""
      [] x.kind = "number" -> x.repr \notin {"0", "NaN"}
      [] OTHER -> FALSE

\* x.toString() of a string or a number
toString(x) == x.repr

\* obj[key], undefined when the key is absent
Get(obj, key) == IF key \in DOMAIN obj THEN obj[key] ELSE Undefined

-----------------------------------------------------------------------------
(* validate.ts *)

string == [type |-> "string"]
number == [type |-> "number"]
boolean == [type |-> "boolean"]
oneOf(options) == [type |-> "oneOf", options |-> options]
optional(fn) == [type |-> "optional", fn |-> fn]

RECURSIVE Validate(_, _)
\* validator(value), for a validator built by validate.ts
Validate(validator, value) ==
    CASE validator.type = "string" -> value.kind = "string"
      [] validator.type = "number" -> value.kind = "number"
      [] validator.type = "boolean" -> value.kind = "boolean"
      [] validator.type = "oneOf" -> \E option \in validator.options : value = option
      [] validator.type = "optional" ->
            IF value = Undefined THEN TRUE ELSE Validate(validator.fn, value)

-----------------------------------------------------------------------------
(* Declarations: the parse functions, default producers, flags, args and   *)
(* commands a program built on the library declares.                       *)

\* the strings a parse function reads as a number
NumericReprs == {"7", "1", "2", "3", "4"}

\* flag.parse(input): "toNumber" converts a numeric string to the number and
\* throws on anything else that is not a number; "toBoolean" converts the
\* strings "true" and "false" and returns any other input unchanged.
ApplyParse(parse, input) ==
    CASE parse = "toNumber" ->
            IF input.kind = "number" THEN [threw |-> FALSE, value |-> input]
            ELSE IF input.kind = "string" /\ input.repr \in NumericReprs
                 THEN [threw |-> FALSE, value |-> Num(input.repr)]
            ELSE [threw |-> TRUE, value |-> Undefined]
      [] parse = "toBoolean" ->
            IF input.kind = "string" /\ input.repr \in {"true", "false"}
            THEN [threw |-> FALSE, value |-> Bool(input.repr)]
            ELSE [threw |-> FALSE, value |-> input]

\* a default producer returns a value, or throws
Returns(v) == [throws |-> FALSE, value |-> v]
Throws == [throws |-> TRUE, value |-> Undefined]

\* The declared commands.  A FlagsCommand has no args and no rest field.
\* "greet" is the example command of the README.
Commands ==
    [greet |->
        [description |-> "Say hello",
         flags |-> <<
            [name |-> "name", validate |-> string],
            [name |-> "exuberant", validate |-> boolean,
             default |-> Returns(Bool("false"))] >>],
     build |->
        [description |-> "Build",
         flags |-> <<
            [name |-> "out", validate |-> optional(string), prompt |-> "custom"],
            [name |-> "level", validate |-> number, parse |-> "toNumber",
             default |-> Returns(Str("high"))],
            [name |-> "tag", validate |-> string, default |-> Throws] >>],
     copy |->
        [description |-> "Copy",
         flags |-> <<
            [name |-> "to", validate |-> string],
            [name |-> "force", validate |-> boolean, parse |-> "toBoolean",
             default |-> Returns(Bool("false"))],
            [name |-> "owner", validate |-> oneOf({Str("Ada"), Str("Bob")}),
             prompt |-> "custom"] >>,
         args |-> <<
            [name |-> "source", validate |-> string],
            [name |-> "count", validate |-> number, parse |-> "toNumber",
             prompt |-> "custom"] >>,
         rest |-> [name |-> "files", validate |-> oneOf({Str("x")})]]]

CommandNames == DOMAIN Commands

\* Two more ArgsCommands: "pair" takes two strings and the rest as strings,
\* "sum" takes a number and the rest as numbers.
PositionalCommands ==
    [pair |->
        [description |-> "Pair",
         flags |-> <<
            [name |-> "label", validate |-> string],
            [name |-> "dry", validate |-> boolean,
             default |-> Returns(Bool("false"))] >>,
         args |-> <<
            [name |-> "a", validate |-> string],
            [name |-> "b", validate |-> string] >>,
         rest |-> [name |-> "c", validate |-> string]],
     sum |->
        [description |-> "Sum",
         flags |-> << >>,
         args |-> <<
            [name |-> "base", validate |-> number, parse |-> "toNumber"] >>,
         rest |-> [name |-> "n", validate |-> number, parse |-> "toNumber"]]]

AllCommands == Commands @@ PositionalCommands

\* Object.keys(command.flags), in declaration order
FlagNames(flagSet) == [k \in 1..Len(flagSet) |-> flagSet[k].name]

\* flagSet[name]
FlagOf(flagSet, flagName) ==
    flagSet[CHOOSE k \in 1..Len(flagSet) : flagSet[k].name = flagName]

\* "args" in command && "rest" in command
IsArgsCommand(cmd) == "args" \in DOMAIN cmd /\ "rest" \in DOMAIN cmd

-----------------------------------------------------------------------------
(* The inputs: command lines, terminals and answers to prompts *)

\* the positional tokens a command line is made of
PositionalTokens == {Str("x"), Str("7")}

\* the raw values a declared flag is given
RawValues == {Str("Ada"), Str("7"), Bool("true")}

\* the values a prompt (the default question or a custom prompt function)
\* resolves to
PromptAnswers == {Str("Ada"), Num("7"), Undefined}

HelpKeys == {"help", "h", "?"}
ReservedKeys == {"_", "$0"}
UndeclaredKeys == {"extra1", "extra2"}

\* the values key may have in a raw-arguments structure
KeyValues(key) ==
    CASE key = "help" -> {Bool("true"), Bool("false")}
      [] key \in HelpKeys \ {"help"} -> {Bool("true")}
      [] key = "$0" -> {Str("cli")}
      [] key \in UndeclaredKeys -> {Num("7")}
      [] OTHER -> RawValues

\* the sequences of at most n elements of S
SeqsUpTo(S, n) == UNION {[1..k -> S] : k \in 0..n}

\* the raw-arguments structures with at most MaxKeys of the given keys and
\* the given positional lists
Argvs(keys, positionals) ==
    UNION {
      { ("_" :> tokens) @@ val :
          tokens \in positionals,
          val \in {v \in [ks -> UNION {KeyValues(k) : k \in ks}] :
                      \A k \in ks : v[k] \in KeyValues(k)} }
      : ks \in {s \in SUBSET keys : Cardinality(s) <= MaxKeys} }

\* the keys a command line for cmd is given
KeysFor(cmd) ==
    {cmd.flags[k].name : k \in 1..Len(cmd.flags)}
        \cup HelpKeys \cup UndeclaredKeys \cup {"$0"}

-----------------------------------------------------------------------------
(* Errors, results and the log of calls *)

Event(op, target) == [op |-> op, target |-> target]

\* new CommandLineError(message, details); the message is kept as its parts
CommandLineError(label, text, shown, details) ==
    [type |-> "CommandLineError",
     message |-> [name |-> label, text |-> text, shown |-> shown],
     details |-> details]

\* an error thrown by a declaration's own code
ThrownBy(op, target) == [type |-> "Error", message |-> Event(op, target)]

Ok(value, events) == [ok |-> TRUE, value |-> value, events |-> events]
Fail(error, events) == [ok |-> FALSE, error |-> error, events |-> events]

Pending == [status |-> "pending"]
Resolved == [status |-> "resolved"]
Rejected(error) == [status |-> "rejected", error |-> error]

-----------------------------------------------------------------------------
(* The resolution pipeline *)

tryParseValue(label, flag, value) ==
    LET hasParse == "parse" \in DOMAIN flag
        parsed == IF hasParse THEN ApplyParse(flag.parse, value)
                  ELSE [threw |-> FALSE, value |-> value]
        parseEvents == IF hasParse THEN <<Event("parse", label)>> ELSE <<>>
        finalValue == parsed.value
    IN  IF parsed.threw
        THEN Fail(CommandLineError(label, "cannot parse", value, value),
                  parseEvents)
        ELSE IF ~Validate(flag.validate, finalValue)
        THEN Fail(CommandLineError(label, "invalid value", finalValue, finalValue),
                  parseEvents \o <<Event("validate", label)>>)
        ELSE Ok(finalValue, parseEvents \o <<Event("validate", label)>>)


\* interactive() answering yes without a terminal
interactive_Always(tty) == TRUE

\* interactive()
interactive(tty) == tty

\* tryPrompt without its last round of validation
tryPrompt_Unchecked(label, flag, tty, answer) ==
    IF ~tty
    THEN Fail(CommandLineError(label, "Required but not given", label, label), <<>>)
    ELSE Ok(answer, IF "prompt" \in DOMAIN flag
                    THEN <<Event("flag.prompt", label)>>
                    ELSE <<Event("prompt", label)>>)

\* answer is the value the awaited prompt resolves to
tryPrompt(label, flag, tty, answer) ==
    IF ~interactive(tty)
    THEN Fail(CommandLineError(label, "Required but not given", label, label), <<>>)
    ELSE LET asked == IF "prompt" \in DOMAIN flag
                      THEN <<Event("flag.prompt", label)>>
                      ELSE <<Event("prompt", label)>>
         IN  IF Validate(flag.validate, answer)
             THEN Ok(answer, asked \o <<Event("validate", label)>>)
             ELSE Fail(CommandLineError(label, "prompting returned invalid value",
                                        answer, answer),
                       asked \o <<Event("validate", label)>>)

\* parseFlag consulting the default before the given value
parseFlag_DefaultFirst(flagName, flag, rawArgs, tty, answer) ==
    LET label == "--" \o flagName
    IN  IF "default" \in DOMAIN flag
        THEN IF flag.default.throws
             THEN Fail(ThrownBy("default", label), <<Event("default", label)>>)
             ELSE LET defaulted == flag.default.value
                  IN  IF Validate(flag.validate, defaulted)
                      THEN Ok(defaulted, <<Event("default", label),
                                           Event("validate", label)>>)
                      ELSE Fail(CommandLineError(label,
                                    "BUG: the default value was invalid",
                                    defaulted, defaulted),
                                <<Event("default", label), Event("validate", label)>>)
        ELSE IF flagName \in DOMAIN rawArgs
        THEN tryParseValue(label, flag, rawArgs[flagName])
        ELSE tryPrompt(label, flag, tty, answer)

\* parseFlag returning the produced default without validating it
parseFlag_TrustsDefault(flagName, flag, rawArgs, tty, answer) ==
    LET label == "--" \o flagName
    IN  IF flagName \in DOMAIN rawArgs
        THEN tryParseValue(label, flag, rawArgs[flagName])
        ELSE IF "default" \in DOMAIN flag
        THEN IF flag.default.throws
             THEN Fail(ThrownBy("default", label), <<Event("default", label)>>)
             ELSE Ok(flag.default.value, <<Event("default", label)>>)
        ELSE tryPrompt(label, flag, tty, answer)

parseFlag(flagName, flag, rawArgs, tty, answer) ==
    LET label == "--" \o flagName
    IN  IF flagName \in DOMAIN rawArgs
        THEN tryParseValue(label, flag, rawArgs[flagName])
        ELSE IF "default" \in DOMAIN flag
        THEN IF flag.default.throws
             THEN Fail(ThrownBy("default", label), <<Event("default", label)>>)
             ELSE LET defaulted == flag.default.value
                  IN  IF Validate(flag.validate, defaulted)
                      THEN Ok(defaulted, <<Event("default", label),
                                           Event("validate", label)>>)
                      ELSE Fail(CommandLineError(label,
                                    "BUG: the default value was invalid",
                                    defaulted, defaulted),
                                <<Event("default", label), Event("validate", label)>>)
        ELSE tryPrompt(label, flag, tty, answer)

\* index is 0-based, as in the source; tokens is argv._
parseArg(index, arg, tokens, tty, answer) ==
    LET label == "arg " \o ToString(index + 1) \o " (" \o arg.name \o ")"
    IN  IF index < Len(tokens)
        THEN tryParseValue(label, arg, tokens[index + 1])
        ELSE tryPrompt(label, arg, tty, answer)

\* whether resolving the flag awaits a prompt
FlagPrompts(flagName, flag, rawArgs, tty) ==
    /\ flagName \notin DOMAIN rawArgs
    /\ "default" \notin DOMAIN flag
    /\ interactive(tty)

\* whether resolving the positional arg awaits a prompt
ArgPrompts(index, tokens, tty) == index >= Len(tokens) /\ interactive(tty)

\* the values the environment may answer with
Answers(prompts) == IF prompts THEN PromptAnswers ELSE {Undefined}

\* unknownFlags stopping at the first undeclared name
unknownFlags_FirstOnly(flagSet, rawArgs) ==
    LET allFlagNames == {flagSet[k].name : k \in 1..Len(flagSet)}
        unknown == {key \in DOMAIN rawArgs :
                      key # "_" /\ key # "$0" /\ key \notin allFlagNames}
    IN  IF unknown = {} THEN {} ELSE {CHOOSE key \in unknown : TRUE}

\* the first part of parseFlagMap
unknownFlags(flagSet, rawArgs) ==
    LET allFlagNames == {flagSet[k].name : k \in 1..Len(flagSet)}
        givenFlagNames == {key \in DOMAIN rawArgs : key # "_" /\ key # "$0"}
    IN  {key \in givenFlagNames : key \notin allFlagNames}

nonDefaultableFlagNames(flagSet) ==
    SelectSeq(FlagNames(flagSet),
              LAMBDA n : "default" \notin DOMAIN FlagOf(flagSet, n))

\* every flag in the first loop, in declaration order
defaultableFlagNames_DeclarationOrder(flagSet) == FlagNames(flagSet)

defaultableFlagNames(flagSet) ==
    SelectSeq(FlagNames(flagSet),
              LAMBDA n : "default" \in DOMAIN FlagOf(flagSet, n))

\* wantsHelp reading the long flag only
wantsHelp_LongFlagOnly(rawArgs) == Truthy(Get(rawArgs, "help"))

\* wantsHelp(argv)
wantsHelp(rawArgs) ==
    \/ Truthy(Get(rawArgs, "help"))
    \/ Truthy(Get(rawArgs, "h"))
    \/ Truthy(Get(rawArgs, "?"))

\* array.slice(from) keeping the element before from
slice_FromBefore(array, from) ==
    SubSeq(array, IF from = 0 THEN 1 ELSE from, Len(array))

\* array.slice(from)
slice(array, from) == SubSeq(array, from + 1, Len(array))

\* getCommandUsage: the flags table calls every declared default producer, in
\* declaration order, to show the default value
getCommandUsage(displayName, cmd) ==
    LET names == FlagNames(cmd.flags)
        producers == SelectSeq(names,
                        LAMBDA n : "default" \in DOMAIN FlagOf(cmd.flags, n))
        throwing == {k \in 1..Len(producers) :
                        FlagOf(cmd.flags, producers[k]).default.throws}
        called == IF throwing = {} THEN Len(producers)
                  ELSE CHOOSE k \in throwing : \A j \in throwing : k <= j
        events == [k \in 1..called |-> Event("default", "--" \o producers[k])]
    IN  IF throwing = {}
        THEN Ok([text |-> "usage", of |-> displayName], events)
        ELSE Fail(ThrownBy("default", "--" \o producers[called]), events)

\* what command.run does: it is the program's own code
HandlerOutcomes == {"returns", "throws"}

-----------------------------------------------------------------------------
(* runCommand *)

Cmd == AllCommands[command]

\* the state in which the program calls fn(displayName, c, rawArgs) itself
Enter(fn, displayName, c, rawArgs, tty) ==
    /\ entry = [fn |-> fn, argv |-> rawArgs]
    /\ commandName = ""
    /\ name = displayName
    /\ command = c
    /\ argv = rawArgs
    /\ isTTY = tty
    /\ pc = fn
    /\ i = 0
    /\ given = <<>>
    /\ args = <<>>
    /\ rest = <<>>
    /\ flags = <<>>
    /\ handled = <<>>
    /\ out = <<>>
    /\ outcome = Pending
    /\ log = <<>>
    /\ module = "none"
    /\ timers = <<>>
    /\ exits = <<>>
    /\ stderr = <<>>
    /\ loading = <<>>
    /\ result = <<>>
    /\ promiseAll = Pending

InitCommand ==
    \E c \in CommandNames, tty \in BOOLEAN :
        \E rawArgs \in Argvs(KeysFor(Commands[c]),
                             SeqsUpTo(PositionalTokens, MaxTokens)) :
            Enter("runCommand", "cli", c, rawArgs, tty)

\* the promise of the running function rejects with error
Reject(error) ==
    /\ outcome' = Rejected(error)
    /\ pc' = "done"

\* if (wantsHelp(argv)) { logger.log(await getCommandUsage(...)); return }
Help ==
    /\ pc = "runCommand"
    /\ wantsHelp(argv)
    /\ LET usage == getCommandUsage(name, Cmd)
       IN  /\ log' = log \o usage.events
           /\ IF usage.ok
              THEN /\ out' = Append(out, usage.value)
                   /\ outcome' = Resolved
                   /\ pc' = "done"
              ELSE /\ out' = out
                   /\ Reject(usage.error)
    /\ UNCHANGED <<procVars, loadVars,
                   entry, commandName, name, command, argv, isTTY, i, given, args, rest,
                   flags, handled>>

\* the ArgsCommand branch resolving the flags first
RunArgsCommand_FlagsFirst ==
    /\ pc = "runCommand"
    /\ ~wantsHelp(argv)
    /\ IsArgsCommand(Cmd)
    /\ pc' = "parseFlagMap"
    /\ UNCHANGED <<procVars, loadVars,
                   entry, commandName, name, command, argv, isTTY, i, given,
                   args, rest, flags, handled, out, outcome, log>>

\* parseArgsArray comparing the number of tokens with the number of args
RunArgsCommand_ChecksCount ==
    /\ pc = "runCommand"
    /\ ~wantsHelp(argv)
    /\ IsArgsCommand(Cmd)
    /\ LET argsArray == Cmd.args
           givenArgs == argv["_"]
       IN  IF Len(argsArray) < Len(givenArgs)
           THEN /\ Reject(CommandLineError("", "Expected at most",
                                           givenArgs, givenArgs))
                /\ i' = i
           ELSE /\ pc' = "parseArgsArray"
                /\ i' = 0
                /\ outcome' = outcome
    /\ UNCHANGED <<procVars, loadVars,
                   entry, commandName, name, command, argv, isTTY, given, args, rest, flags,
                   handled, out, log>>

\* the ArgsCommand branch, up to the loop of parseArgsArray
RunArgsCommand ==
    /\ pc = "runCommand"
    /\ ~wantsHelp(argv)
    /\ IsArgsCommand(Cmd)
    /\ LET argsArray == Cmd.args
           givenArgs == argv["_"]
       IN  IF Len(argsArray) < Len(argsArray)
           THEN /\ Reject(CommandLineError("", "Expected at most",
                                           givenArgs, givenArgs))
                /\ i' = i
           ELSE /\ pc' = "parseArgsArray"
                /\ i' = 0
                /\ outcome' = outcome
    /\ UNCHANGED <<procVars, loadVars,
                   entry, commandName, name, command, argv, isTTY, given, args, rest, flags,
                   handled, out, log>>

\* results[i] = await parseArg(i, argsArray[i], givenArgs)
ParseArgsArrayStep ==
    /\ pc = "parseArgsArray"
    /\ i < Len(Cmd.args)
    /\ \E answer \in Answers(ArgPrompts(i, argv["_"], isTTY)) :
        LET r == parseArg(i, Cmd.args[i + 1], argv["_"], isTTY, answer)
        IN  /\ log' = log \o r.events
            /\ IF r.ok
               THEN /\ args' = Append(args, r.value)
                    /\ i' = i + 1
                    /\ UNCHANGED <<pc, outcome>>
               ELSE /\ Reject(r.error)
                    /\ UNCHANGED <<args, i>>
    /\ UNCHANGED <<procVars, loadVars,
                   entry, commandName, name, command, argv, isTTY, given, rest, flags,
                   handled, out>>

\* return results; then parseRest(command.rest, argv._.slice(args.length))
ParseArgsArrayReturn ==
    /\ pc = "parseArgsArray"
    /\ i = Len(Cmd.args)
    /\ given' = slice(argv["_"], Len(args))
    /\ pc' = "parseRest"
    /\ i' = 0
    /\ UNCHANGED <<procVars, loadVars,
                   entry, commandName, name, command, argv, isTTY, args, rest, flags,
                   handled, out, outcome, log>>

\* if (givenArgs.length === 0) { return givenArgs }
ParseRestEmpty ==
    /\ pc = "parseRest"
    /\ Len(given) = 0
    /\ rest' = given
    /\ pc' = "parseFlagMap"
    /\ UNCHANGED <<procVars, loadVars,
                   entry, commandName, name, command, argv, isTTY, i, given, args, flags,
                   handled, out, outcome, log>>

\* results.push(await tryParseValue(`Rest arg ${i + 1}`, restType, givenArgs[i]))
ParseRestStep ==
    /\ pc = "parseRest"
    /\ Len(given) # 0
    /\ i < Len(given)
    /\ LET r == tryParseValue("Rest arg " \o ToString(i + 1), Cmd.rest,
                              given[i + 1])
       IN  /\ log' = log \o r.events
           /\ IF r.ok
              THEN /\ rest' = Append(rest, r.value)
                   /\ i' = i + 1
                   /\ UNCHANGED <<pc, outcome>>
              ELSE /\ Reject(r.error)
                   /\ UNCHANGED <<rest, i>>
    /\ UNCHANGED <<procVars, loadVars,
                   entry, commandName, name, command, argv, isTTY, given, args, flags,
                   handled, out>>

ParseRestReturn ==
    /\ pc = "parseRest"
    /\ Len(given) # 0
    /\ i = Len(given)
    /\ pc' = "parseFlagMap"
    /\ UNCHANGED <<procVars, loadVars,
                   entry, commandName, name, command, argv, isTTY, i, given, args, rest,
                   flags, handled, out, outcome, log>>

\* the FlagsCommand branch ignoring the positional tokens
RunFlagsCommandGivenArgs_Ignored ==
    /\ pc = "runCommand"
    /\ ~wantsHelp(argv)
    /\ ~IsArgsCommand(Cmd)
    /\ Len(argv["_"]) > 0
    /\ pc' = "parseFlagMap"
    /\ UNCHANGED <<procVars, loadVars,
                   entry, commandName, name, command, argv, isTTY, i, given,
                   args, rest, flags, handled, out, outcome, log>>

\* the FlagsCommand branch: if (argv._.length > 0) throw
RunFlagsCommandGivenArgs ==
    /\ pc = "runCommand"
    /\ ~wantsHelp(argv)
    /\ ~IsArgsCommand(Cmd)
    /\ Len(argv["_"]) > 0
    /\ Reject(CommandLineError("", "Expected 0 args", argv["_"], argv["_"]))
    /\ UNCHANGED <<procVars, loadVars,
                   entry, commandName, name, command, argv, isTTY, i, given, args, rest,
                   flags, handled, out, log>>

\* the FlagsCommand branch with no positional token
RunFlagsCommand ==
    /\ pc = "runCommand"
    /\ ~wantsHelp(argv)
    /\ ~IsArgsCommand(Cmd)
    /\ ~(Len(argv["_"]) > 0)
    /\ pc' = "parseFlagMap"
    /\ UNCHANGED <<procVars, loadVars,
                   entry, commandName, name, command, argv, isTTY, i, given, args, rest,
                   flags, handled, out, outcome, log>>

\* parseFlagMap: if (unknownFlags.length > 0) throw
ParseFlagMapUnknown ==
    /\ pc = "parseFlagMap"
    /\ LET unknown == unknownFlags(Cmd.flags, argv)
       IN  /\ Cardinality(unknown) > 0
           /\ Reject(CommandLineError("", "Unknown flags given",
                                      {"--" \o n : n \in unknown}, unknown))
    /\ UNCHANGED <<procVars, loadVars,
                   entry, commandName, name, command, argv, isTTY, i, given, args, rest,
                   flags, handled, out, log>>

\* parseFlagMap: no unknown flag; const result = {}
ParseFlagMapStart ==
    /\ pc = "parseFlagMap"
    /\ Cardinality(unknownFlags(Cmd.flags, argv)) = 0
    /\ flags' = <<>>
    /\ i' = 0
    /\ pc' = "defaultable"
    /\ UNCHANGED <<procVars, loadVars,
                   entry, commandName, name, command, argv, isTTY, given, args, rest,
                   handled, out, outcome, log>>

\* result[name] = await parseFlag(name, flagSet[name], argv), for the name at
\* index i of names
ParseFlagStep(names) ==
    /\ i < Len(names)
    /\ LET n == names[i + 1]
           flag == FlagOf(Cmd.flags, n)
       IN  \E answer \in Answers(FlagPrompts(n, flag, argv, isTTY)) :
            LET r == parseFlag(n, flag, argv, isTTY, answer)
            IN  /\ log' = log \o r.events
                /\ IF r.ok
                   THEN /\ flags' = (n :> r.value) @@ flags
                        /\ i' = i + 1
                        /\ UNCHANGED <<pc, outcome>>
                   ELSE /\ Reject(r.error)
                        /\ UNCHANGED <<flags, i>>
    /\ UNCHANGED <<procVars, loadVars,
                   entry, commandName, name, command, argv, isTTY, given, args, rest,
                   handled, out>>

\* for (const name of defaultableFlagNames)
ParseDefaultableStep ==
    /\ pc = "defaultable"
    /\ ParseFlagStep(defaultableFlagNames(Cmd.flags))

ParseDefaultableDone ==
    /\ pc = "defaultable"
    /\ i = Len(defaultableFlagNames(Cmd.flags))
    /\ pc' = "nonDefaultable"
    /\ i' = 0
    /\ UNCHANGED <<procVars, loadVars,
                   entry, commandName, name, command, argv, isTTY, given, args, rest,
                   flags, handled, out, outcome, log>>

\* for (const name of nonDefaultableFlagNames)
ParseNonDefaultableStep ==
    /\ pc = "nonDefaultable"
    /\ ParseFlagStep(nonDefaultableFlagNames(Cmd.flags))

\* return result
ParseFlagMapReturn ==
    /\ pc = "nonDefaultable"
    /\ i = Len(nonDefaultableFlagNames(Cmd.flags))
    /\ pc' = "run"
    /\ UNCHANGED <<procVars, loadVars,
                   entry, commandName, name, command, argv, isTTY, i, given, args, rest,
                   flags, handled, out, outcome, log>>

\* await command.run(flags, args, rest) or await command.run(flags)
Run ==
    /\ pc = "run"
    /\ handled' = Append(handled,
                    IF IsArgsCommand(Cmd)
                    THEN [command |-> command, flags |-> flags, args |-> args,
                          rest |-> rest]
                    ELSE [command |-> command, flags |-> flags])
    /\ log' = Append(log, Event("run", command))
    /\ \E behaviour \in HandlerOutcomes :
        IF behaviour = "returns"
        THEN outcome' = Resolved /\ pc' = "done"
        ELSE Reject(ThrownBy("run", command))
    /\ UNCHANGED <<procVars, loadVars,
                   entry, commandName, name, command, argv, isTTY, i, given, args, rest,
                   flags, out>>

NextCommand ==
    \/ Help
    \/ RunArgsCommand
    \/ ParseArgsArrayStep
    \/ ParseArgsArrayReturn
    \/ ParseRestEmpty
    \/ ParseRestStep
    \/ ParseRestReturn
    \/ RunFlagsCommandGivenArgs
    \/ RunFlagsCommand
    \/ ParseFlagMapUnknown
    \/ ParseFlagMapStart
    \/ ParseDefaultableStep
    \/ ParseDefaultableDone
    \/ ParseNonDefaultableStep
    \/ ParseFlagMapReturn
    \/ Run

\* runCommand on the commands pair and sum
SplitTokens == {Str("1"), Str("2"), Str("3"), Str("4"), Str("x")}

\* the command line has positional tokens only
InitSplit ==
    \E c \in DOMAIN PositionalCommands, tty \in BOOLEAN :
        \E rawArgs \in Argvs({}, SeqsUpTo(SplitTokens, MaxSplitTokens)) :
            Enter("runCommand", "cli", c, rawArgs, tty)

\* The steps of runCommand on an ArgsCommand that is given no flag at all
NextSplit ==
    \/ RunArgsCommand
    \/ ParseArgsArrayStep
    \/ ParseArgsArrayReturn
    \/ ParseRestEmpty
    \/ ParseRestStep
    \/ ParseRestReturn
    \/ ParseFlagMapStart
    \/ ParseDefaultableStep
    \/ ParseDefaultableDone
    \/ ParseNonDefaultableStep
    \/ ParseFlagMapReturn
    \/ Run

-----------------------------------------------------------------------------
(* runLoaders *)

\* the caller's CommandLoaders: Object.keys order, and the command each loader
\* resolves to
LoaderNames == <<"greet", "copy">>
Loaders == [greet |-> "greet", copy |-> "copy"]

\* the positional tokens of a command line with a subcommand
LoaderTokens == {Str("greet"), Str("copy"), Str("help"), Str(""),
                 Str("--name=Ada")}

LoaderKeys == {"name", "help", "extra1"}

InitLoaders ==
    \E tty \in BOOLEAN :
        \E rawArgs \in Argvs(LoaderKeys, SeqsUpTo(LoaderTokens, MaxTokens)) :
            Enter("runLoaders", "cli", "", rawArgs, tty)

\* const [commandName, ...args] = argv._ : commandName
FirstToken(rawArgs) ==
    IF Len(rawArgs["_"]) = 0 THEN Undefined ELSE rawArgs["_"][1]

\* const [commandName, ...args] = argv._ : args
RestOfTokens(rawArgs) == slice(rawArgs["_"], 1)

\* commandName === undefined || commandName === "help" ||
\*   (wantsHelp(argv) && !commandName)
HelpRequested(rawArgs) ==
    \/ FirstToken(rawArgs) = Undefined
    \/ FirstToken(rawArgs) = Str("help")
    \/ (wantsHelp(rawArgs) /\ ~Truthy(FirstToken(rawArgs)))

\* const wantHelpAbout = args[0].toString(), with args[0] undefined
RunLoadersHelpNoToken ==
    /\ pc = "runLoaders"
    /\ HelpRequested(argv)
    /\ Len(RestOfTokens(argv)) = 0
    /\ Reject([type |-> "TypeError",
               message |-> Event("toString", "undefined")])
    /\ UNCHANGED <<procVars, loadVars,
                   entry, commandName, name, command, argv, isTTY, i, given,
                   args, rest, flags, handled, out, log>>

\* if (wantHelpAbout): load it and run it with { _: [], help: true }
RunLoadersHelpAbout ==
    /\ pc = "runLoaders"
    /\ HelpRequested(argv)
    /\ Len(RestOfTokens(argv)) > 0
    /\ LET wantHelpAbout == toString(RestOfTokens(argv)[1])
       IN  /\ Truthy(Str(wantHelpAbout))
           /\ commandName' = wantHelpAbout
           /\ name' = name \o " " \o wantHelpAbout
           /\ argv' = ("_" :> <<>>) @@ ("help" :> Bool("true"))
    /\ pc' = "loadCommand"
    /\ UNCHANGED <<procVars, loadVars,
                   entry, command, isTTY, i, given, args, rest, flags,
                   handled, out, outcome, log>>

\* wantHelpAbout is the empty string: show all the commands
RunLoadersHelpAll ==
    /\ pc = "runLoaders"
    /\ HelpRequested(argv)
    /\ Len(RestOfTokens(argv)) > 0
    /\ ~Truthy(Str(toString(RestOfTokens(argv)[1])))
    /\ pc' = "getCommandLoadersUsage"
    /\ UNCHANGED <<procVars, loadVars,
                   entry, commandName, name, command, argv, isTTY, i, given,
                   args, rest, flags, handled, out, outcome, log>>

\* getCommandLoadersUsage: loadAllCommands calls every loader; the list of
\* commands is printed
GetCommandLoadersUsage ==
    /\ pc = "getCommandLoadersUsage"
    /\ log' = log \o [k \in 1..Len(LoaderNames) |-> Event("load", LoaderNames[k])]
    /\ out' = Append(out, [text |-> "commands", of |-> name,
                           rows |-> [k \in 1..Len(LoaderNames) |->
                                        <<LoaderNames[k],
                                          Commands[Loaders[LoaderNames[k]]].description>>]])
    /\ outcome' = Resolved
    /\ pc' = "done"
    /\ UNCHANGED <<procVars, loadVars,
                   entry, commandName, name, command, argv, isTTY, i, given,
                   args, rest, flags, handled>>

\* dispatching with argv instead of childArgv
RunLoadersDispatch_KeepsToken ==
    /\ pc = "runLoaders"
    /\ ~HelpRequested(argv)
    /\ commandName' = toString(argv["_"][1])
    /\ name' = name \o " " \o toString(argv["_"][1])
    /\ pc' = "loadCommand"
    /\ UNCHANGED <<procVars, loadVars,
                   entry, command, argv, isTTY, i, given, args, rest, flags,
                   handled, out, outcome, log>>

\* Not doing help: run the command with childArgv = { ...argv, _: args }
RunLoadersDispatch ==
    /\ pc = "runLoaders"
    /\ ~HelpRequested(argv)
    /\ commandName' = toString(argv["_"][1])
    /\ name' = name \o " " \o toString(argv["_"][1])
    /\ argv' = ("_" :> RestOfTokens(argv)) @@ argv
    /\ pc' = "loadCommand"
    /\ UNCHANGED <<procVars, loadVars,
                   entry, command, isTTY, i, given, args, rest, flags,
                   handled, out, outcome, log>>

\* loadCommand: if (!loader) throw
LoadCommandNotFound ==
    /\ pc = "loadCommand"
    /\ commandName \notin DOMAIN Loaders
    /\ Reject(CommandLineError("", "Command not found", commandName,
                               commandName))
    /\ UNCHANGED <<procVars, loadVars,
                   entry, commandName, name, command, argv, isTTY, i, given,
                   args, rest, flags, handled, out, log>>

\* loadCommand: return await loader(); then runCommand(name, command, argv)
LoadCommand ==
    /\ pc = "loadCommand"
    /\ commandName \in DOMAIN Loaders
    /\ command' = Loaders[commandName]
    /\ log' = Append(log, Event("load", commandName))
    /\ pc' = "runCommand"
    /\ UNCHANGED <<procVars, loadVars,
                   entry, commandName, name, argv, isTTY, i, given, args,
                   rest, flags, handled, out, outcome>>

NextLoaders ==
    \/ RunLoadersHelpNoToken
    \/ RunLoadersHelpAbout
    \/ RunLoadersHelpAll
    \/ GetCommandLoadersUsage
    \/ RunLoadersDispatch
    \/ LoadCommandNotFound
    \/ LoadCommand

-----------------------------------------------------------------------------
(* loadAllCommands *)

\* the loaders a program may declare, and the command the promise of each
\* resolves to when it does
LazyLoaders ==
    [g |-> "greet", b |-> "build", c |-> "copy", p |-> "pair", s |-> "sum"]

\* the CommandLoaders objects of at most MaxLoaders loaders, as the list of
\* their names in the order of Object.entries
LoaderLists ==
    {names \in SeqsUpTo(DOMAIN LazyLoaders, MaxLoaders) :
        \A p, q \in 1..Len(names) : p # q => names[p] # names[q]}

InitLoadAll ==
    \E names \in LoaderLists :
        /\ entry = [fn |-> "loadAllCommands", loaders |-> names]
        /\ pc = "loadAllCommands"
        /\ module = "none"
        /\ isTTY = FALSE
        /\ commandName = ""
        /\ name = ""
        /\ command = ""
        /\ argv = ("_" :> <<>>)
        /\ i = 0
        /\ given = <<>>
        /\ args = <<>>
        /\ rest = <<>>
        /\ flags = <<>>
        /\ handled = <<>>
        /\ out = <<>>
        /\ outcome = Pending
        /\ log = <<>>
        /\ timers = <<>>
        /\ exits = <<>>
        /\ stderr = <<>>
        /\ loading = <<>>
        /\ result = <<>>
        /\ promiseAll = Pending

\* obj[key] = value, obj being the list of its entries in insertion order
Assign(obj, key, value) ==
    IF \E k \in 1..Len(obj) : obj[k][1] = key
    THEN [k \in 1..Len(obj) |-> IF obj[k][1] = key THEN <<key, value>> ELSE obj[k]]
    ELSE Append(obj, <<key, value>>)

\* const result = {}; Object.entries(loaders).map(async ([name, loader]) =>
\* ... loader() ...): every callback runs up to its await, so that every
\* loader is called, in order, before any of them settles
LoadAllCommands ==
    /\ pc = "loadAllCommands"
    /\ log' = log \o [k \in 1..Len(entry.loaders) |->
                          Event("load", entry.loaders[k])]
    /\ loading' = [n \in {entry.loaders[k] : k \in 1..Len(entry.loaders)} |->
                      "pending"]
    /\ result' = <<>>
    /\ promiseAll' = IF Len(entry.loaders) = 0 THEN Resolved ELSE Pending
    /\ pc' = "awaitAll"
    /\ UNCHANGED <<procVars, entry, commandName, name, command, argv, isTTY, i, given,
                   args, rest, flags, handled, out, outcome>>

\* the callbacks writing under the name of the last loader
LoaderFulfilled_SharedName(n) ==
    /\ n \in DOMAIN loading
    /\ loading[n] = "pending"
    /\ result' = Assign(result, entry.loaders[Len(entry.loaders)], LazyLoaders[n])
    /\ loading' = [loading EXCEPT ![n] = "fulfilled"]
    /\ promiseAll' =
            IF promiseAll = Pending
                /\ \A m \in DOMAIN loading \ {n} : loading[m] = "fulfilled"
            THEN Resolved
            ELSE promiseAll
    /\ UNCHANGED <<procVars, entry, commandName, name, command, argv, isTTY, pc, i,
                   given, args, rest, flags, handled, out, outcome, log>>

\* result[name] = await loader(), the promise of the loader n being fulfilled;
\* Promise.all is fulfilled when every callback has returned
LoaderFulfilled(n) ==
    /\ n \in DOMAIN loading
    /\ loading[n] = "pending"
    /\ result' = Assign(result, n, LazyLoaders[n])
    /\ loading' = [loading EXCEPT ![n] = "fulfilled"]
    /\ promiseAll' =
            IF promiseAll = Pending
                /\ \A m \in DOMAIN loading \ {n} : loading[m] = "fulfilled"
            THEN Resolved
            ELSE promiseAll
    /\ UNCHANGED <<procVars, entry, commandName, name, command, argv, isTTY, pc, i,
                   given, args, rest, flags, handled, out, outcome, log>>

\* await loader() throws, the promise of the loader n being rejected;
\* Promise.all is rejected with the first rejection
LoaderRejected(n) ==
    /\ n \in DOMAIN loading
    /\ loading[n] = "pending"
    /\ loading' = [loading EXCEPT ![n] = "rejected"]
    /\ promiseAll' = IF promiseAll = Pending
                     THEN Rejected(ThrownBy("load", n))
                     ELSE promiseAll
    /\ UNCHANGED <<procVars, entry, commandName, name, command, argv, isTTY, pc, i,
                   given, args, rest, flags, handled, out, outcome, log, result>>

\* await Promise.all(...) returns: return result
LoadAllReturn ==
    /\ pc = "awaitAll"
    /\ promiseAll.status = "resolved"
    /\ outcome' = [status |-> "resolved", value |-> result]
    /\ pc' = "done"
    /\ UNCHANGED <<procVars, loadVars, entry, commandName, name, command, argv, isTTY,
                   i, given, args, rest, flags, handled, out, log>>

\* await Promise.all(...) throws
LoadAllThrow ==
    /\ pc = "awaitAll"
    /\ promiseAll.status = "rejected"
    /\ outcome' = Rejected(promiseAll.error)
    /\ pc' = "done"
    /\ UNCHANGED <<procVars, loadVars, entry, commandName, name, command, argv, isTTY,
                   i, given, args, rest, flags, handled, out, log>>

NextLoadAll ==
    \/ LoadAllCommands
    \/ \E n \in DOMAIN LazyLoaders : LoaderFulfilled(n)
    \/ \E n \in DOMAIN LazyLoaders : LoaderRejected(n)
    \/ LoadAllReturn
    \/ LoadAllThrow

-----------------------------------------------------------------------------
(* runThenExitIfMain and startIfMain, main being the README's                *)
(* (name, argv) => runCommand(name, command, argv)                           *)

\* process.argv[0] and process.argv[1]
NodePath == Str("/usr/bin/node")
ScriptPath == Str("/app/cli.js")

\* minimist(process.argv): process.argv is given whole, so that the positional
\* list begins with the path of node and the path of the script
ProcessArgvs(keys) ==
    Argvs(keys, {<<NodePath, ScriptPath>> \o tokens :
                    tokens \in SeqsUpTo(PositionalTokens, MaxTokens - 2)})

\* module.filename.split("/")
ModuleFilenames == {<<"", "app", "cli.js">>, <<"", "app", "">>}

\* the commands the main function runs
MainCommands == {"greet", "copy", "pair"}

InitMain ==
    \E m \in {"main", "required"}, c \in MainCommands, tty \in BOOLEAN,
       filename \in ModuleFilenames :
        \E rawArgs \in ProcessArgvs(KeysFor(AllCommands[c])) :
            /\ entry = [fn |-> "runThenExitIfMain", argv |-> rawArgs,
                        main |-> c, filename |-> filename]
            /\ module = m
            /\ isTTY = tty
            /\ pc = "startIfMain"
            /\ commandName = ""
            /\ name = ""
            /\ command = ""
            /\ argv = ("_" :> <<>>)
            /\ i = 0
            /\ given = <<>>
            /\ args = <<>>
            /\ rest = <<>>
            /\ flags = <<>>
            /\ handled = <<>>
            /\ out = <<>>
            /\ outcome = Pending
            /\ log = <<>>
            /\ timers = <<>>
            /\ exits = <<>>
            /\ stderr = <<>>
            /\ loading = <<>>
            /\ result = <<>>
            /\ promiseAll = Pending

\* if (module !== require.main) { return }
StartIfMainNotMain ==
    /\ pc = "startIfMain"
    /\ module # "main"
    /\ pc' = "returned"
    /\ UNCHANGED <<procVars, loadVars,
                   entry, commandName, name, command, argv, isTTY, i, given, args, rest,
                   flags, handled, out, outcome, log>>

\* name is the last part of module.filename; await main(name, argv)
StartIfMain ==
    /\ pc = "startIfMain"
    /\ ~(module # "main")
    /\ LET filenameParts == entry.filename
           last == filenameParts[Len(filenameParts)]
       IN  name' = IF last # "" THEN last ELSE "(unknown command)"
    /\ argv' = entry.argv
    /\ command' = entry.main
    /\ pc' = "runCommand"
    /\ UNCHANGED <<procVars, loadVars,
                   entry, commandName, isTTY, i, given, args, rest,
                   flags, handled, out, outcome, log>>

\* runThenExitIfMain falling through its catch block after exit 2 is requested
CatchCommandLineError_FallsThrough ==
    /\ module = "main"
    /\ pc = "done"
    /\ outcome.status = "rejected"
    /\ outcome.error.type = "CommandLineError"
    /\ stderr' = stderr \o <<outcome.error.message, outcome.error>>
    /\ timers' = timers \o <<2, 1>>
    /\ pc' = "settled"
    /\ UNCHANGED <<loadVars, module, exits,
                   entry, commandName, name, command, argv, isTTY, i, given, args, rest,
                   flags, handled, out, outcome, log>>

\* runThenExitIfMain: main has resolved; setTimeout(() => process.exit(0))
ExitAfterMain ==
    /\ module = "main"
    /\ pc = "done"
    /\ outcome.status = "resolved"
    /\ timers' = Append(timers, 0)
    /\ pc' = "settled"
    /\ UNCHANGED <<loadVars, module, exits, stderr,
                   entry, commandName, name, command, argv, isTTY, i, given, args, rest,
                   flags, handled, out, outcome, log>>

\* catch (error): if (error.type === "CommandLineError")
CatchCommandLineError ==
    /\ module = "main"
    /\ pc = "done"
    /\ outcome.status = "rejected"
    /\ outcome.error.type = "CommandLineError"
    /\ stderr' = Append(stderr, outcome.error.message)
    /\ timers' = Append(timers, 2)
    /\ pc' = "settled"
    /\ UNCHANGED <<loadVars, module, exits,
                   entry, commandName, name, command, argv, isTTY, i, given, args, rest,
                   flags, handled, out, outcome, log>>

\* catch (error): any other error
CatchError ==
    /\ module = "main"
    /\ pc = "done"
    /\ outcome.status = "rejected"
    /\ ~(outcome.error.type = "CommandLineError")
    /\ stderr' = Append(stderr, outcome.error)
    /\ timers' = Append(timers, 1)
    /\ pc' = "settled"
    /\ UNCHANGED <<loadVars, module, exits,
                   entry, commandName, name, command, argv, isTTY, i, given, args, rest,
                   flags, handled, out, outcome, log>>

\* the first pending timer fires: process.exit(code)
Timeout ==
    /\ pc = "settled"
    /\ timers # <<>>
    /\ exits' = Append(exits, Head(timers))
    /\ timers' = Tail(timers)
    /\ pc' = "exited"
    /\ UNCHANGED <<loadVars, module, stderr,
                   entry, commandName, name, command, argv, isTTY, i, given, args, rest,
                   flags, handled, out, outcome, log>>

\* The steps of runCommand are those of NextCommand but RunFlagsCommand, which
\* needs an empty positional list: that of minimist(process.argv) never is.
NextMain ==
    \/ StartIfMainNotMain
    \/ StartIfMain
    \/ ExitAfterMain
    \/ CatchCommandLineError
    \/ CatchError
    \/ Timeout
    \/ Help
    \/ RunArgsCommand
    \/ ParseArgsArrayStep
    \/ ParseArgsArrayReturn
    \/ ParseRestEmpty
    \/ ParseRestStep
    \/ ParseRestReturn
    \/ RunFlagsCommandGivenArgs
    \/ ParseFlagMapUnknown
    \/ ParseFlagMapStart
    \/ ParseDefaultableStep
    \/ ParseDefaultableDone
    \/ ParseNonDefaultableStep
    \/ ParseFlagMapReturn
    \/ Run

-----------------------------------------------------------------------------
(* The program: a call of runCommand or of runLoaders *)

Init == InitCommand \/ InitLoaders
Next == NextCommand \/ NextLoaders
Spec == Init /\ [][Next]_vars

\* The program: a call of runCommand on the command pair or the command sum
SpecSplit == InitSplit /\ [][NextSplit]_vars

\* The program: a call of loadAllCommands
SpecLoadAll == InitLoadAll /\ [][NextLoadAll]_vars

\* The program: a module calling runThenExitIfMain
SpecMain == InitMain /\ [][NextMain]_vars

-----------------------------------------------------------------------------
(* Vocabulary of the properties.  These read the state and the              *)
(* declarations only; they use none of the operators of the pipeline.       *)

\* a command has been handed to runCommand
Dispatched == command # ""

\* one of the help flags of the raw arguments is truthy
HelpFlagGiven(rawArgs) ==
    \E key \in HelpKeys : key \in DOMAIN rawArgs /\ Truthy(rawArgs[key])

\* runCommand is resolving and running the command (not showing its help)
Resolving == Dispatched /\ ~HelpFlagGiven(argv)

DeclaredFlags == {Cmd.flags[k] : k \in 1..Len(Cmd.flags)}
DeclaredFlagNames == {f.name : f \in DeclaredFlags}
FlagLabel(flagName) == "--" \o flagName
FlagLabels == {FlagLabel(n) : n \in DeclaredFlagNames}

\* the calls of the log made for the given label
EventsOf(label) == {k \in 1..Len(log) : log[k].target = label}
OpsOf(label) == {log[k].op : k \in EventsOf(label)}

PromptOps == {"prompt", "flag.prompt"}

\* the promise rejected with a CommandLineError with this message text
RejectedWith(text) ==
    /\ outcome.status = "rejected"
    /\ outcome.error.type = "CommandLineError"
    /\ outcome.error.message.text = text

\* the promise rejected with a CommandLineError about this label
RejectedAbout(label) ==
    /\ outcome.status = "rejected"
    /\ outcome.error.type = "CommandLineError"
    /\ outcome.error.message.name = label

\* the promise rejected with what a declaration's own code threw
RejectedByThrow(op, target) ==
    /\ outcome.status = "rejected"
    /\ outcome.error.type = "Error"
    /\ outcome.error.message = [op |-> op, target |-> target]

-----------------------------------------------------------------------------
(* C1 *)

\* C1 as stated: for every command and every raw arguments with a truthy help
\* flag, runCommand emits the usage text and returns, and never invokes the
\* handler nor any parse, validate or prompt step.
C1_HelpAlwaysEmitsUsage ==
    (Dispatched /\ HelpFlagGiven(argv)) =>
        /\ handled = <<>>
        /\ \A k \in 1..Len(log) :
              log[k].op \notin {"parse", "validate", "run"} \cup PromptOps
        /\ pc = "done" =>
              /\ outcome = Resolved
              /\ out = <<[text |-> "usage", of |-> name]>>

\* C1 amended: with a truthy help flag runCommand never invokes the handler
\* nor any parse, validate or prompt step; it ends either having emitted the
\* usage text once and resolved, or, when a default producer called to render
\* the flags table throws, rejected with that error and nothing emitted.
C1_HelpNeverResolves ==
    (Dispatched /\ HelpFlagGiven(argv)) =>
        /\ handled = <<>>
        /\ \A k \in 1..Len(log) :
              log[k].op \notin {"parse", "validate", "run"} \cup PromptOps
        /\ pc \in {"runCommand", "done"}
        /\ pc = "done" =>
              \/ /\ outcome = Resolved
                 /\ out = <<[text |-> "usage", of |-> name]>>
                 /\ \A f \in DeclaredFlags :
                       "default" \in DOMAIN f => ~f.default.throws
              \/ /\ out = <<>>
                 /\ \E f \in DeclaredFlags :
                       /\ "default" \in DOMAIN f
                       /\ f.default.throws
                       /\ RejectedByThrow("default", FlagLabel(f.name))

\* help was asked for with an undeclared flag and extra positional tokens
\* around it, and the usage was printed
C1_Witness ==
    /\ Dispatched
    /\ "h" \in DOMAIN argv
    /\ "extra1" \in DOMAIN argv
    /\ Len(argv["_"]) > 1
    /\ pc = "done"
    /\ out # <<>>

-----------------------------------------------------------------------------
(* C2 *)

\* C2: every flag value, every fixed positional value and every rest value
\* passed to a command's run handler satisfies the validate predicate of its
\* own declaration.
C2_HandlerGetsValidValues ==
    \A k \in 1..Len(handled) :
        LET call == handled[k]
            cmd == Commands[call.command]
        IN  /\ \A j \in 1..Len(cmd.flags) :
                  /\ cmd.flags[j].name \in DOMAIN call.flags
                  /\ Validate(cmd.flags[j].validate,
                              call.flags[cmd.flags[j].name])
            /\ "args" \in DOMAIN cmd =>
                  /\ Len(call.args) = Len(cmd.args)
                  /\ \A j \in 1..Len(cmd.args) :
                        Validate(cmd.args[j].validate, call.args[j])
                  /\ \A j \in 1..Len(call.rest) :
                        Validate(cmd.rest.validate, call.rest[j])

\* the handler ran with values from a positional token, a rest token, a
\* custom prompt function, a default question and a default producer
C2_Witness ==
    /\ Len(handled) = 1
    /\ handled[1].command = "copy"
    /\ Len(handled[1].rest) > 0
    /\ \E k \in 1..Len(log) : log[k].op = "flag.prompt"
    /\ \E k \in 1..Len(log) : log[k].op = "prompt"
    /\ \E k \in 1..Len(log) : log[k].op = "default"
    /\ \E k \in 1..Len(log) : log[k].op = "parse"

-----------------------------------------------------------------------------
(* C3 *)

\* the keys of the raw arguments that are neither reserved nor declared
Undeclared == (DOMAIN argv \ ReservedKeys) \ DeclaredFlagNames

\* C3: when the raw flag mapping has undeclared keys, parseFlagMap fails with
\* one CommandLineError whose message and details list every undeclared name,
\* before any declared flag's default producer, parser, validator or prompt
\* is invoked.
C3_UnknownFlagsAllListedFirst ==
    /\ [](Resolving /\ Undeclared # {} =>
            /\ \A label \in FlagLabels : EventsOf(label) = {}
            /\ pc \notin {"defaultable", "nonDefaultable", "run"}
            /\ handled = <<>>)
    /\ [][(pc = "parseFlagMap" /\ Undeclared # {}) =>
            /\ pc' = "done"
            /\ log' = log
            /\ outcome' = Rejected(
                  [type |-> "CommandLineError",
                   message |-> [name |-> "", text |-> "Unknown flags given",
                                shown |-> {FlagLabel(n) : n \in Undeclared}],
                   details |-> Undeclared])]_vars

\* two undeclared flags were given and the error names both
C3_Witness ==
    /\ RejectedWith("Unknown flags given")
    /\ outcome.error.details = {"extra1", "extra2"}

-----------------------------------------------------------------------------
(* C4 *)

\* flag.parse applied to the raw value given for the flag, if it has a parse
C4_Parsed(f) ==
    IF "parse" \in DOMAIN f THEN ApplyParse(f.parse, argv[f.name])
    ELSE [threw |-> FALSE, value |-> argv[f.name]]

\* C4: a flag whose name is a key of the raw arguments is decided by
\* parse-then-validate of the given value alone: a throwing parse gives a
\* CommandLineError carrying the raw value, a value failing validate one
\* carrying the post-parse value, otherwise the post-parse value is the
\* result; the default producer and the prompts are never invoked.
C4_GivenFlagIsParsedAndValidated ==
    Resolving =>
        \A f \in DeclaredFlags :
            f.name \in DOMAIN argv =>
                LET parsed == C4_Parsed(f)
                    valid == ~parsed.threw /\ Validate(f.validate, parsed.value)
                IN  /\ OpsOf(FlagLabel(f.name)) \subseteq {"parse", "validate"}
                    /\ f.name \in DOMAIN flags =>
                          valid /\ flags[f.name] = parsed.value
                    /\ (valid /\ pc = "run") => f.name \in DOMAIN flags
                    /\ RejectedAbout(FlagLabel(f.name)) =>
                          /\ ~valid
                          /\ parsed.threw =>
                                /\ outcome.error.message.text = "cannot parse"
                                /\ outcome.error.details = argv[f.name]
                          /\ ~parsed.threw =>
                                /\ outcome.error.message.text = "invalid value"
                                /\ outcome.error.details = parsed.value
                    /\ outcome.status = "rejected" =>
                          outcome.error # [type |-> "Error",
                              message |-> [op |-> "default",
                                           target |-> FlagLabel(f.name)]]

\* a flag that declares a default was given a value its parse throws on
C4_Witness ==
    /\ command = "build"
    /\ RejectedAbout("--level")
    /\ outcome.error.message.text = "cannot parse"
    /\ isTTY

-----------------------------------------------------------------------------
(* C5 *)

\* C5: a flag that is absent from the raw arguments and declares a default
\* never prompts and never parses: the value its producer returns is the
\* result if it satisfies validate, and otherwise resolution fails with the
\* default-value-invalid CommandLineError carrying that value.
C5_AbsentFlagTakesValidatedDefault ==
    Resolving =>
        \A f \in DeclaredFlags :
            (f.name \notin DOMAIN argv /\ "default" \in DOMAIN f) =>
                /\ OpsOf(FlagLabel(f.name)) \subseteq {"default", "validate"}
                /\ f.name \in DOMAIN flags =>
                      /\ ~f.default.throws
                      /\ flags[f.name] = f.default.value
                      /\ Validate(f.validate, f.default.value)
                /\ pc \in {"nonDefaultable", "run"} => f.name \in DOMAIN flags
                /\ RejectedAbout(FlagLabel(f.name)) =>
                      /\ ~f.default.throws
                      /\ ~Validate(f.validate, f.default.value)
                      /\ outcome.error.message.text =
                            "BUG: the default value was invalid"
                      /\ outcome.error.details = f.default.value

\* on a terminal, an absent flag's default producer returned an invalid value
C5_Witness ==
    /\ command = "build"
    /\ "level" \notin DOMAIN argv
    /\ isTTY
    /\ RejectedWith("BUG: the default value was invalid")

-----------------------------------------------------------------------------
(* C6 *)

\* the place of a flag in the claimed order of resolution: the flags that
\* declare a default in declaration order, then the others in declaration
\* order
C6_Rank(flagName) ==
    LET k == CHOOSE j \in 1..Len(Cmd.flags) : Cmd.flags[j].name = flagName
    IN  IF "default" \in DOMAIN Cmd.flags[k] THEN k ELSE Len(Cmd.flags) + k

\* the flag a logged call was made for
C6_FlagOfEvent(k) ==
    CHOOSE n \in DeclaredFlagNames : FlagLabel(n) = log[k].target

C6_FlagEvents == {k \in 1..Len(log) : log[k].target \in FlagLabels}

\* the flag whose resolution made the promise reject, if any
C6_FailedFlags ==
    {n \in DeclaredFlagNames :
        \/ RejectedAbout(FlagLabel(n))
        \/ RejectedByThrow("default", FlagLabel(n))}

\* C6: parseFlagMap resolves the flags that declare a default, in declaration
\* order, before the flags without one, in declaration order, and stops at
\* the first failure: no call is made for a later flag.
C6_DefaultsFirstFailFast ==
    Resolving =>
        /\ \A p, q \in C6_FlagEvents :
              p < q => C6_Rank(C6_FlagOfEvent(p)) <= C6_Rank(C6_FlagOfEvent(q))
        /\ \A n, m \in DeclaredFlagNames :
              (C6_Rank(m) < C6_Rank(n)
                  /\ (n \in DOMAIN flags \/ EventsOf(FlagLabel(n)) # {}))
                  => m \in DOMAIN flags
        /\ DOMAIN flags \subseteq DeclaredFlagNames
        /\ \A n \in C6_FailedFlags :
              /\ n \notin DOMAIN flags
              /\ \A m \in DeclaredFlagNames :
                    C6_Rank(m) > C6_Rank(n) =>
                        /\ m \notin DOMAIN flags
                        /\ EventsOf(FlagLabel(m)) = {}
              /\ handled = <<>>
        /\ pc = "run" => DOMAIN flags = DeclaredFlagNames

\* on a terminal two flags are missing; the producer of the one with a
\* default threw and the one without, declared first, was never prompted for
C6_Witness ==
    /\ command = "build"
    /\ isTTY
    /\ "out" \notin DOMAIN argv
    /\ "tag" \notin DOMAIN argv
    /\ RejectedByThrow("default", "--tag")
    /\ EventsOf("--out") = {}
    /\ "level" \in DOMAIN flags

-----------------------------------------------------------------------------
(* C7 *)

C7_ArgLabel(k) == "arg " \o ToString(k) \o " (" \o Cmd.args[k].name \o ")"
C7_RestLabel(k) == "Rest arg " \o ToString(k)
C7_ArgLabels == {C7_ArgLabel(k) : k \in 1..Len(Cmd.args)}
C7_RestLabels == {C7_RestLabel(k) : k \in 1..Len(entry.argv["_"])}

\* the step of runCommand a label belongs to: positional k is step k, the
\* rest tokens follow the positionals, then the flags, then the handler
C7_Step(label) ==
    LET n == Len(Cmd.args)
        m == Len(entry.argv["_"])
    IN  CASE label \in C7_ArgLabels ->
                CHOOSE k \in 1..n : C7_ArgLabel(k) = label
          [] label \in C7_RestLabels ->
                n + (CHOOSE k \in 1..m : C7_RestLabel(k) = label)
          [] label \in FlagLabels -> n + m + 1
          [] OTHER -> 0

\* the step a logged call belongs to; loading the command comes before all
C7_EventStep(e) ==
    CASE e.op = "load" -> 0
      [] e.op = "run" -> Len(Cmd.args) + Len(entry.argv["_"]) + 2
      [] OTHER -> C7_Step(e.target)

\* the step a CommandLineError was thrown in: the unknown-flags error names
\* no single label and is thrown by the flags step
C7_StepOfError(error) ==
    IF error.message.text = "Unknown flags given"
    THEN Len(Cmd.args) + Len(entry.argv["_"]) + 1
    ELSE C7_Step(error.message.name)

\* the rest tokens runCommand gives to parseRest
C7_Remainder ==
    IF Len(argv["_"]) > Len(Cmd.args)
    THEN Len(argv["_"]) - Len(Cmd.args) ELSE 0

\* C7: runCommand on an ArgsCommand without a help flag resolves the fixed
\* positional args in index order, then rest, then the flags, then calls the
\* handler exactly once; a failure in a step means that no later step and no
\* handler call happens.
C7_ArgsThenRestThenFlagsThenRun ==
    (Resolving /\ IsArgsCommand(Cmd)) =>
        /\ \A p, q \in 1..Len(log) :
              p < q => C7_EventStep(log[p]) <= C7_EventStep(log[q])
        /\ \A k \in 1..Len(log) :
              /\ log[k].op # "load" => C7_EventStep(log[k]) > 0
              /\ C7_EventStep(log[k]) > Len(Cmd.args)
                    => Len(args) = Len(Cmd.args)
              /\ C7_EventStep(log[k]) > Len(Cmd.args) + Len(entry.argv["_"])
                    => Len(rest) = C7_Remainder
        /\ Len(handled) <= 1
        /\ Cardinality({k \in 1..Len(log) : log[k].op = "run"}) = Len(handled)
        /\ Len(handled) = 1 =>
              /\ handled[1] = [command |-> command, flags |-> flags,
                               args |-> args, rest |-> rest]
              /\ DOMAIN flags = DeclaredFlagNames
              /\ Len(args) = Len(Cmd.args)
              /\ Len(rest) = C7_Remainder
        /\ (pc = "done" /\ outcome = Resolved) => Len(handled) = 1
        /\ (outcome.status = "rejected" /\ ~RejectedByThrow("run", command)) =>
              /\ handled = <<>>
              /\ outcome.error.type = "CommandLineError" =>
                    \A k \in 1..Len(log) :
                        C7_EventStep(log[k]) <= C7_StepOfError(outcome.error)

\* the second positional arg and then a flag were prompted for, and the
\* handler ran
C7_Witness ==
    /\ command = "copy"
    /\ Len(handled) = 1
    /\ \E p, q \in 1..Len(log) :
          /\ p < q
          /\ log[p] = [op |-> "flag.prompt", target |-> "arg 2 (count)"]
          /\ log[q] = [op |-> "prompt", target |-> "--to"]

-----------------------------------------------------------------------------
(* C8 *)

\* C8: runCommand on a FlagsCommand without a help flag, given positional
\* tokens, fails with the "Expected 0 args" CommandLineError naming every
\* token, before any flag is resolved and without calling the handler; with
\* no positional token the flags are resolved and the handler is called with
\* the flags only.
C8_FlagsCommandTakesNoPositionals ==
    (Resolving /\ ~IsArgsCommand(Cmd)) =>
        /\ Len(argv["_"]) > 0 =>
              /\ pc \in {"runCommand", "done"}
              /\ \A k \in 1..Len(log) : log[k].op = "load"
              /\ handled = <<>>
              /\ flags = <<>>
              /\ pc = "done" =>
                    outcome = Rejected(
                        [type |-> "CommandLineError",
                         message |-> [name |-> "", text |-> "Expected 0 args",
                                      shown |-> argv["_"]],
                         details |-> argv["_"]])
        /\ Len(argv["_"]) = 0 =>
              /\ ~RejectedWith("Expected 0 args")
              /\ Len(handled) <= 1
              /\ \A k \in 1..Len(handled) :
                    handled[k] = [command |-> command, flags |-> flags]
              /\ (pc = "done" /\ outcome = Resolved) =>
                    /\ Len(handled) = 1
                    /\ DOMAIN flags = DeclaredFlagNames

\* two positional tokens and an undeclared flag were given to a FlagsCommand
C8_Witness ==
    /\ command = "greet"
    /\ Len(argv["_"]) = 2
    /\ "extra1" \in DOMAIN argv
    /\ RejectedWith("Expected 0 args")

-----------------------------------------------------------------------------
(* C9 *)

\* runLoaders was asked for help: no token, the token "help", or a help flag
\* with no subcommand token
C9_HelpAsked ==
    /\ entry.fn = "runLoaders"
    /\ \/ Len(entry.argv["_"]) = 0
       \/ (Len(entry.argv["_"]) > 0 /\ entry.argv["_"][1] = Str("help"))
       \/ (HelpFlagGiven(entry.argv) /\ Len(entry.argv["_"]) > 0
              /\ entry.argv["_"][1] = Str(""))

\* C9: when runLoaders is asked for help, a second token names the subcommand
\* whose help is shown, that subcommand's handler never being called, and
\* with no second token the full command list is printed and runLoaders
\* completes without error.
C9_HelpShowsSubcommandOrList ==
    C9_HelpAsked =>
        /\ handled = <<>>
        /\ (pc = "done" /\ Len(entry.argv["_"]) < 2) =>
              /\ outcome = Resolved
              /\ Len(out) = 1
              /\ out[1].text = "commands"

-----------------------------------------------------------------------------
(* C10 *)

C10_Routed(rawArgs) == entry = [fn |-> "runLoaders", argv |-> rawArgs]

\* C10 as stated: with loaders {greet} and the positional list
\* ["greet", "--name=Ada"], runLoaders loads greet and the greet command
\* resolves and runs with flags {name: "Ada"}.
C10_TokenAfterSubcommandIsAFlag ==
    (C10_Routed("_" :> <<Str("greet"), Str("--name=Ada")>>) /\ pc = "done") =>
        /\ Len(handled) = 1
        /\ handled[1].command = "greet"
        /\ handled[1].flags["name"] = Str("Ada")

\* C10 amended: runLoaders loads the command named by the first token and
\* dispatches into it with the raw arguments it was given, the positional
\* list replaced by the tokens after the subcommand name and the flag keys
\* kept; with raw arguments {_: ["greet"], name: "Ada"} the greet command
\* resolves and runs with name "Ada", and with the positional list
\* ["greet", "--name=Ada"] the token stays positional, so that greet fails
\* with the "Expected 0 args" error naming it and its handler is not called.
C10_RoutesWithRemainingTokens ==
    /\ (entry.fn = "runLoaders" /\ Dispatched /\ ~C9_HelpAsked) =>
          /\ commandName = entry.argv["_"][1].repr
          /\ command = Loaders[commandName]
          /\ name = "cli " \o commandName
          /\ DOMAIN argv = DOMAIN entry.argv
          /\ \A key \in DOMAIN argv \ {"_"} : argv[key] = entry.argv[key]
          /\ argv["_"] = Tail(entry.argv["_"])
          /\ log[1] = [op |-> "load", target |-> commandName]
    /\ (C10_Routed(("_" :> <<Str("greet")>>) @@ ("name" :> Str("Ada")))
            /\ pc = "done") =>
          /\ handled = <<[command |-> "greet",
                          flags |-> [name |-> Str("Ada"),
                                     exuberant |-> Bool("false")]]>>
    /\ (C10_Routed("_" :> <<Str("greet"), Str("--name=Ada")>>)
            /\ pc = "done") =>
          /\ handled = <<>>
          /\ RejectedWith("Expected 0 args")
          /\ outcome.error.details = <<Str("--name=Ada")>>

\* greet was routed to with the name given as a flag key, and ran
C10_Witness ==
    /\ C10_Routed(("_" :> <<Str("greet")>>) @@ ("name" :> Str("Ada")))
    /\ pc = "done"
    /\ outcome = Resolved
    /\ Len(handled) = 1

-----------------------------------------------------------------------------
(* C11 *)

\* the exit codes requested so far: those of the timers set and not yet fired,
\* and those process.exit was called with
C11_Requested == exits \o timers

-----------------------------------------------------------------------------
(* C12 *)

\* the declared flags that are absent from the raw arguments and have no
\* default producer
C12_RequiredFlags ==
    {f \in DeclaredFlags : f.name \notin DOMAIN argv /\ "default" \notin DOMAIN f}

\* the 1-based indexes of the fixed positional args that have no token
C12_RequiredArgs ==
    IF IsArgsCommand(Cmd)
    THEN {k \in 1..Len(Cmd.args) : k > Len(argv["_"])}
    ELSE {}

\* the declaration labelled label was given no value and has no default:
\* resolved tells whether it has a value, and value is that value
C12_RequiredAndNotGiven(label, decl, resolved, value) ==
    LET asks == IF "prompt" \in DOMAIN decl THEN "flag.prompt" ELSE "prompt"
        calls == EventsOf(label)
    IN  /\ ~isTTY =>
              /\ calls = {}
              /\ ~resolved
              /\ handled = <<>>
              /\ pc # "run"
              /\ outcome.status # "resolved"
              /\ RejectedAbout(label) =>
                    outcome.error =
                        [type |-> "CommandLineError",
                         message |-> [name |-> label,
                                      text |-> "Required but not given",
                                      shown |-> label],
                         details |-> label]
        /\ isTTY =>
              /\ \A k \in calls : log[k].op \in {asks, "validate"}
              /\ Cardinality(calls) \in {0, 2}
              /\ \A p, q \in calls :
                    p < q => (log[p].op = asks /\ log[q].op = "validate")
              /\ resolved =>
                    /\ calls # {}
                    /\ Validate(decl.validate, value)
                    /\ ~RejectedAbout(label)
              /\ RejectedAbout(label) =>
                    /\ calls # {}
                    /\ ~resolved
                    /\ outcome.error.message.text =
                            "prompting returned invalid value"
                    /\ ~Validate(decl.validate, outcome.error.details)
              /\ (calls # {} /\ ~resolved) => RejectedAbout(label)

\* C12: a flag absent from the raw arguments with no default, and a fixed
\* positional arg with no token, fail at once without a terminal, with the
\* "Required but not given" CommandLineError and without any call of the
\* prompting collaborator, of a custom prompt function or of parse; with a
\* terminal the value of the default question, or of the custom prompt
\* function, is returned only if it passes validate, and the
\* "prompting returned invalid value" CommandLineError is thrown otherwise.
C12_PromptOnlyWithTerminalAndValidated ==
    Resolving =>
        /\ \A f \in C12_RequiredFlags :
              C12_RequiredAndNotGiven(FlagLabel(f.name), f,
                                      f.name \in DOMAIN flags,
                                      Get(flags, f.name))
        /\ \A k \in C12_RequiredArgs :
              C12_RequiredAndNotGiven(C7_ArgLabel(k), Cmd.args[k],
                                      Len(args) >= k,
                                      IF Len(args) >= k THEN args[k]
                                      ELSE Undefined)

\* with a terminal, the default question for the flag --to of copy was
\* answered with a number, after the custom prompt of the arg count gave a
\* valid one
C12_Witness ==
    /\ command = "copy"
    /\ isTTY
    /\ Len(argv["_"]) = 1
    /\ "to" \notin DOMAIN argv
    /\ args = <<Str("x"), Num("7")>>
    /\ RejectedAbout("--to")
    /\ outcome.error.message.text = "prompting returned invalid value"
    /\ outcome.error.details = Num("7")

-----------------------------------------------------------------------------
(* C13 *)

\* what a declared parse function makes of a token it accepts, and the token
\* itself for a declaration without parse
C13_Resolved(decl, token) ==
    IF "parse" \in DOMAIN decl /\ decl.parse = "toNumber"
    THEN [kind |-> "number", repr |-> token.repr]
    ELSE token

\* the calls a given token is resolved with
C13_Calls(decl) ==
    IF "parse" \in DOMAIN decl THEN <<"parse", "validate">> ELSE <<"validate">>

\* the calls of the log made for the label, in order
C13_OpsInOrder(label) ==
    LET made == SelectSeq(log, LAMBDA e : e.target = label)
    IN  [k \in 1..Len(made) |-> made[k].op]

\* parseRest has returned
C13_RestDone ==
    pc \in {"parseFlagMap", "defaultable", "nonDefaultable", "run"}
        \/ handled # <<>>
        \/ (pc = "done" /\ outcome.status = "rejected"
                /\ outcome.error.type = "CommandLineError"
                /\ outcome.error.message.name \in FlagLabels \cup {""})

\* C13: for an ArgsCommand declaring n fixed args and a rest spec, given
\* k >= n tokens, fixed arg i resolves from token i and rest is exactly the
\* tokens n..k-1 in order, each parsed and validated on its own, with no
\* defaulting, no prompting and no coercion of a token (args [a, b] with the
\* tokens "1", "2", "3", "4" give a = "1", b = "2" and rest = ["3", "4"]); an
\* empty remainder gives an empty rest with no call of parse or validate.
C13_FixedArgsThenRestInOrder ==
    LET tokens == argv["_"]
        n == Len(Cmd.args)
        k == Len(tokens)
    IN  (Resolving /\ IsArgsCommand(Cmd) /\ k >= n) =>
            /\ Len(args) <= n
            /\ Len(rest) <= k - n
            /\ \A j \in 1..Len(args) :
                  /\ args[j] = C13_Resolved(Cmd.args[j], tokens[j])
                  /\ C13_OpsInOrder(C7_ArgLabel(j)) = C13_Calls(Cmd.args[j])
            /\ \A j \in 1..Len(rest) :
                  /\ rest[j] = C13_Resolved(Cmd.rest, tokens[n + j])
                  /\ C13_OpsInOrder(C7_RestLabel(j)) = C13_Calls(Cmd.rest)
            /\ \A j \in (Len(rest) + 2)..k : EventsOf(C7_RestLabel(j)) = {}
            /\ \A e \in 1..Len(log) :
                  log[e].target \in C7_ArgLabels \cup C7_RestLabels
                      => log[e].op \in {"parse", "validate"}
            /\ C13_RestDone => (Len(args) = n /\ Len(rest) = k - n)
            /\ \A j \in 1..k :
                  RejectedAbout(C7_RestLabel(j)) =>
                      /\ j = Len(rest) + 1
                      /\ j <= k - n
                      /\ outcome.error.message.text
                            \in {"cannot parse", "invalid value"}
                      /\ outcome.error.details = tokens[n + j]
            /\ k = n =>
                  /\ rest = <<>>
                  /\ \A j \in 1..MaxSplitTokens + 1 :
                        EventsOf(C7_RestLabel(j)) = {}
            /\ (command = "pair" /\ Len(handled) = 1
                    /\ tokens = <<Str("1"), Str("2"), Str("3"), Str("4")>>) =>
                  /\ handled[1].args = <<Str("1"), Str("2")>>
                  /\ handled[1].rest = <<Str("3"), Str("4")>>

\* pair ran on the tokens "1", "2", "3", "4"
C13_Witness ==
    /\ command = "pair"
    /\ argv["_"] = <<Str("1"), Str("2"), Str("3"), Str("4")>>
    /\ Len(handled) = 1
    /\ handled[1].rest = <<Str("3"), Str("4")>>

-----------------------------------------------------------------------------
(* C14 *)

\* the names of the loaders given to loadAllCommands
C14_Names == {entry.loaders[k] : k \in 1..Len(entry.loaders)}

\* the keys of a mapping given as the list of its entries
C14_Keys(mapping) == {mapping[k][1] : k \in 1..Len(mapping)}

\* C14: loadAllCommands calls every loader before any of them has settled,
\* and in whatever order they settle the mapping it returns has exactly the
\* names of the loaders as keys, each with the command of its own loader; if
\* a loader fails, loadAllCommands fails and returns no mapping.
C14_AllLoadedOrNone ==
    entry.fn = "loadAllCommands" =>
        /\ pc # "loadAllCommands" =>
              /\ log = [k \in 1..Len(entry.loaders) |->
                          [op |-> "load", target |-> entry.loaders[k]]]
              /\ DOMAIN loading = C14_Names
        /\ pc = "loadAllCommands" => (log = <<>> /\ loading = <<>>)
        /\ outcome.status = "resolved" =>
              /\ Len(outcome.value) = Len(entry.loaders)
              /\ C14_Keys(outcome.value) = C14_Names
              /\ \A k \in 1..Len(outcome.value) :
                    outcome.value[k][2] = LazyLoaders[outcome.value[k][1]]
              /\ \A n \in C14_Names : loading[n] = "fulfilled"
        /\ (\E n \in DOMAIN loading : loading[n] = "rejected") =>
              /\ outcome.status # "resolved"
              /\ "value" \notin DOMAIN outcome
              /\ pc = "done" =>
                    /\ outcome.status = "rejected"
                    /\ \E n \in DOMAIN loading :
                          /\ loading[n] = "rejected"
                          /\ outcome.error = [type |-> "Error",
                                              message |-> [op |-> "load",
                                                           target |-> n]]
        /\ pc = "done" => outcome.status # "pending"

\* three loaders settled in the reverse of the order they were called in, and
\* the mapping was returned
C14_Witness ==
    /\ entry.fn = "loadAllCommands"
    /\ entry.loaders = <<"g", "c", "p">>
    /\ outcome.status = "resolved"
    /\ outcome.value = <<<<"p", "pair">>, <<"c", "copy">>, <<"g", "greet">>>>

-----------------------------------------------------------------------------
(* C15 *)

\* the fixed positional arg k was prompted for
C15_Prompted(k) ==
    \E e \in EventsOf(C7_ArgLabel(k)) : log[e].op \in PromptOps

\* C15: runCommand on an ArgsCommand without a help flag never fails for
\* having too many positional tokens, and checks for unknown flags only when
\* every fixed positional arg and rest are resolved: with an undeclared flag
\* and a fixed positional arg missing, a terminal is prompted for the arg
\* before the unknown-flags error is thrown, and without a terminal the error
\* is that of the missing arg, not the unknown-flags error.
C15_NoTooManyArgsAndFlagsCheckedLast ==
    (Resolving /\ IsArgsCommand(Cmd)) =>
        /\ ~RejectedWith("Expected at most")
        /\ (outcome.status = "rejected"
                /\ outcome.error.type = "CommandLineError"
                /\ outcome.error.message.name = "")
              => outcome.error.message.text = "Unknown flags given"
        /\ Len(argv["_"]) > Len(Cmd.args) =>
              /\ Len(rest) <= Len(argv["_"]) - Len(Cmd.args)
              /\ Len(handled) = 1 =>
                    Len(handled[1].rest) = Len(argv["_"]) - Len(Cmd.args)
        /\ RejectedWith("Unknown flags given") =>
              /\ Undeclared # {}
              /\ Len(args) = Len(Cmd.args)
              /\ Len(rest) = C7_Remainder
              /\ \A k \in C12_RequiredArgs : isTTY /\ C15_Prompted(k)
        /\ (Undeclared # {} /\ C12_RequiredArgs # {} /\ ~isTTY) =>
              /\ ~RejectedWith("Unknown flags given")
              /\ pc \notin {"parseRest", "parseFlagMap"}
              /\ pc = "done" =>
                    \E k \in 1..Len(argv["_"]) + 1 :
                        /\ RejectedAbout(C7_ArgLabel(k))
                        /\ k = Len(args) + 1
                        /\ k > Len(argv["_"]) =>
                              outcome.error.message.text = "Required but not given"

\* copy was given one token and an undeclared flag: the terminal was
\* prompted for the second arg, and then the unknown-flags error was thrown
C15_Witness ==
    /\ command = "copy"
    /\ isTTY
    /\ Len(argv["_"]) = 1
    /\ "extra1" \in DOMAIN argv
    /\ C15_Prompted(2)
    /\ RejectedWith("Unknown flags given")

====
